---- MODULE Spec2Model ----
(***************************************************************************)
(* rewrite_lol (src/utils/html.rs): the streaming rewrite of a rustdoc     *)
(* page.  Bytes are TLA+ strings; an input document is the sequence of its *)
(* lexemes, each with its raw bytes and what the tokenizer reads from it.  *)
(* The sink's buffer is the sequence of chunks handed to it, and Bytes of  *)
(* it is the Vec<u8> the function returns.                                 *)
(***************************************************************************)
EXTENDS Integers, Sequences, FiniteSets, TLC

VARIABLES
    html,                      \* the input document (l.12), as lexemes
    max_allowed_memory_usage,  \* the memory ceiling (l.13), in selector-stack entries
    ctx,                       \* the render context (l.14): the templates it cannot render
    templates,                 \* the template store (l.15): name -> rendered text
    tera,                      \* the four rendered fragments (l.21-24)
    pc,                        \* "render", "write", "done"
    pos,                       \* index of the next lexeme writer.write consumes
    stack,                     \* the rewriter's stack of open elements
    buffer,                    \* the chunks the sink appended (l.104-108)
    result,                    \* the value returned to the caller (l.16, 111-114)
    panicked,                  \* an unwrap (l.21-24) unwound the call
    elem,                      \* the element the handlers of the last start tag left
    fired                      \* how often each handler ran

vars == <<html, max_allowed_memory_usage, ctx, templates, tera, pc, pos, stack,
          buffer, result, panicked, elem, fired>>

(***************************************************************************)
(* Bounds of the model.                                                    *)
(***************************************************************************)
MaxDocLen == 3

(***************************************************************************)
(* Bytes.                                                                  *)
(***************************************************************************)
RECURSIVE Concat(_)
Concat(ss) == IF ss = <<>> THEN "" ELSE Head(ss) \o Concat(Tail(ss))

Contains(s, sub) ==
    \E i \in 1..(Len(s) - Len(sub) + 1) : SubSeq(s, i, i + Len(sub) - 1) = sub

RECURSIVE EscapeDoubleQuotes(_)
EscapeDoubleQuotes(s) ==
    IF Len(s) = 0 THEN ""
    ELSE (IF SubSeq(s, 1, 1) = "\"" THEN "&quot;" ELSE SubSeq(s, 1, 1))
         \o EscapeDoubleQuotes(SubSeq(s, 2, Len(s)))

SeqToSet(s) == {s[i] : i \in 1..Len(s)}

(***************************************************************************)
(* Lexemes of the input.  An attribute keeps its raw bytes; name is the    *)
(* lower-cased local name the selectors and the stack compare.             *)
(***************************************************************************)
Attr(n, v, r) == [name |-> n, value |-> v, raw |-> r]

StartTag(n, as, r) == [kind |-> "start", name |-> n, attrs |-> as, raw |-> r]
EndTag(n, r) == [kind |-> "end", name |-> n, attrs |-> <<>>, raw |-> r]
Text(r) == [kind |-> "text", name |-> "", attrs |-> <<>>, raw |-> r]

HtmlOpen == StartTag("html", <<>>, "<html>")
HtmlClose == EndTag("html", "</html>")
HeadOpen == StartTag("head", <<>>, "<head>")
HeadClose == EndTag("head", "</head>")
BodyPlain == StartTag("body", <<>>, "<body>")
BodyFoo == StartTag("body", <<Attr("class", "foo", "class=\"foo\"")>>,
                    "<body class=\"foo\">")
BodyEmptyClass == StartTag("body", <<Attr("class", "", "class=\"\"")>>,
                           "<body class=\"\">")
BodyMessy == StartTag("body",
                      <<Attr("data-x", "1", "data-x=1"),
                        Attr("id", "old", "id=\"old\""),
                        Attr("class", "a\"b", "CLASS='a\"b'")>>,
                      "<BODY  data-x=1 id=\"old\" CLASS='a\"b' >")
BodyClose == EndTag("body", "</body>")
BodyCloseMessy == EndTag("body", "</BODY >")
LinkRustdoc == StartTag("link",
                        <<Attr("type", "text/css", "type=\"text/css\""),
                          Attr("href", "rustdoc.css", "href=\"rustdoc.css\"")>>,
                        "<link type=\"text/css\" href=\"rustdoc.css\">")
LinkMain == StartTag("link",
                     <<Attr("type", "text/css", "type=\"text/css\""),
                       Attr("href", "main.css", "href=\"main.css\"")>>,
                     "<link type=\"text/css\" href=\"main.css\">")
LinkPlain == StartTag("link",
                      <<Attr("type", "text/plain", "type=\"text/plain\""),
                        Attr("href", "rustdoc.txt", "href=\"rustdoc.txt\"")>>,
                      "<link type=\"text/plain\" href=\"rustdoc.txt\">")
POpen == StartTag("p", <<>>, "<p>")
TextX == Text("X")

Alphabet == {HeadOpen, HeadClose, BodyPlain, BodyFoo, BodyEmptyClass, BodyMessy,
             BodyClose, BodyCloseMessy, LinkRustdoc, LinkMain, LinkPlain, POpen, TextX}

VoidElements == {"link", "meta", "br", "img", "input", "hr"}

ExampleDoc == <<HtmlOpen, HeadOpen, HeadClose, BodyFoo, TextX, BodyClose, HtmlClose>>

InputBytes(doc) == Concat([i \in 1..Len(doc) |-> doc[i].raw])

(***************************************************************************)
(* The render context and the template store.  A context names the         *)
(* templates whose variables it lacks: rendering one of them fails.        *)
(***************************************************************************)
TemplateNames == <<"rustdoc/head.html", "rustdoc/vendored.html",
                   "rustdoc/body.html", "rustdoc/header.html">>

ExampleTemplates ==
    [n \in SeqToSet(TemplateNames) |->
        CASE n = "rustdoc/head.html" -> "<style>h</style>"
          [] n = "rustdoc/vendored.html" -> "<link rel=vendor>"
          [] n = "rustdoc/body.html" -> "<nav>top</nav>"
          [] n = "rustdoc/header.html" -> "<header>hdr</header>"]

\* Fragments that themselves look like elements the selectors name.
LookalikeTemplates ==
    [n \in SeqToSet(TemplateNames) |->
        CASE n = "rustdoc/head.html" -> "<link type=\"text/css\" href=\"rustdoc.css\">"
          [] n = "rustdoc/vendored.html" -> "<head></head>"
          [] n = "rustdoc/body.html" -> "<body>"
          [] n = "rustdoc/header.html" -> "<body class=\"foo\">"]

TemplateStores == {ExampleTemplates, LookalikeTemplates}

Contexts == {{}} \cup {{TemplateNames[i]} : i \in 1..Len(TemplateNames)}

\* templates.render(name, &ctx): the text, or a failure.
render(store, name, c) ==
    IF name \in c THEN [ok |-> FALSE, text |-> ""]
    ELSE [ok |-> TRUE, text |-> store[name]]

NoFragments == [head |-> "", vendored_css |-> "", body |-> "", rustdoc_header |-> ""]

(***************************************************************************)
(* The element a handler is given, and the operations the handlers use.    *)
(* local is the name the element was opened with; name, attrs and the four *)
(* content lists are what the handlers may change.                         *)
(***************************************************************************)
NoElement == [src |-> 0, local |-> "", name |-> "", attrs |-> <<>>, raw |-> "",
              modified |-> FALSE, can_have_content |-> FALSE,
              before |-> <<>>, prepend |-> <<>>, append |-> <<>>, after |-> <<>>,
              end_name |-> ""]

Element(tok, i) ==
    [NoElement EXCEPT !.src = i, !.local = tok.name, !.name = tok.name,
                      !.attrs = tok.attrs, !.raw = tok.raw,
                      !.can_have_content = (tok.name \notin VoidElements)]

Ok(e) == [ok |-> TRUE, el |-> e, err |-> ""]
Err(e, kind) == [ok |-> FALSE, el |-> e, err |-> kind]

AttrIdx(e, n) == {i \in 1..Len(e.attrs) : e.attrs[i].name = n}
has_attribute(e, n) == AttrIdx(e, n) # {}
Min(S) == CHOOSE x \in S : \A y \in S : x <= y
Max(S) == CHOOSE x \in S : \A y \in S : x >= y
get_attribute(e, n) == e.attrs[Min(AttrIdx(e, n))].value

ForbiddenInAttrName == {" ", "\n", "\t", "\"", "'", ">", "/", "="}
ForbiddenInTagName == {" ", "\n", "\t", ">", "/"}
Chars(s) == {SubSeq(s, i, i) : i \in 1..Len(s)}
AsciiAlpha == {"a", "b", "c", "d", "e", "f", "g", "h", "i", "j", "k", "l", "m",
               "n", "o", "p", "q", "r", "s", "t", "u", "v", "w", "x", "y", "z"}

\* Element::set_attribute: the name is validated, the value is not; an
\* attribute that exists keeps its place, a new one goes last.
set_attribute(e, n, v) ==
    IF Len(n) = 0 \/ Chars(n) \cap ForbiddenInAttrName # {}
    THEN Err(e, "AttributeNameError")
    ELSE IF has_attribute(e, n)
         THEN Ok([e EXCEPT !.modified = TRUE,
                           !.attrs[Min(AttrIdx(e, n))] = Attr(n, v, "")])
         ELSE Ok([e EXCEPT !.modified = TRUE,
                           !.attrs = Append(e.attrs, Attr(n, v, ""))])

\* Element::set_tag_name: renames the start tag and the end tag.
set_tag_name(e, n) ==
    IF Len(n) = 0 \/ SubSeq(n, 1, 1) \notin AsciiAlpha
       \/ Chars(n) \cap ForbiddenInTagName # {}
    THEN Err(e, "TagNameError")
    ELSE Ok([e EXCEPT !.modified = TRUE, !.name = n, !.end_name = n])

\* Element::before: consecutive calls add after what was inserted before.
before(e, content) == [e EXCEPT !.before = Append(e.before, content)]

\* Element::prepend: first inside the element; no effect on a void element.
prepend(e, content) ==
    IF e.can_have_content THEN [e EXCEPT !.prepend = <<content>> \o e.prepend] ELSE e

\* Element::append: right before the end tag; no effect on a void element.
append(e, content) ==
    IF e.can_have_content THEN [e EXCEPT !.append = Append(e.append, content)] ELSE e

\* Element::after: right after the end tag (after the start tag of a void element).
after(e, content) == [e EXCEPT !.after = <<content>> \o e.after]

(***************************************************************************)
(* The three handlers (l.27-73) and their selectors (l.75-79).             *)
(***************************************************************************)
\* (a variant of head_handler that inserts first in the head)
head_handler_Prepend(head) == Ok(prepend(head, tera.head))

head_handler(head) == Ok(append(head, tera.head))

\* (a variant of klass without the separating space)
klass_NoSpace(rustdoc_body_class) ==
    IF has_attribute(rustdoc_body_class, "class")
    THEN get_attribute(rustdoc_body_class, "class") \o "container-rustdoc"
    ELSE "container-rustdoc"

klass(rustdoc_body_class) ==
    IF has_attribute(rustdoc_body_class, "class")
    THEN get_attribute(rustdoc_body_class, "class") \o " container-rustdoc"
    ELSE "container-rustdoc"

\* (a variant of body_handler that inserts the header before the <body> tag)
body_handler_HeaderFirst(rustdoc_body_class) ==
    LET r1 == set_attribute(rustdoc_body_class, "class", klass(rustdoc_body_class))
        r2 == set_attribute(r1.el, "id", "rustdoc_body_wrapper")
        r3 == set_attribute(r2.el, "tabindex", "-1")
        r4 == set_tag_name(r3.el, "div")
    IN  Ok(after(before(before(prepend(r4.el, tera.body), tera.rustdoc_header),
                        "<body>"),
                 "</body>"))

body_handler(rustdoc_body_class) ==
    LET r1 == set_attribute(rustdoc_body_class, "class", klass(rustdoc_body_class))
        r2 == set_attribute(r1.el, "id", "rustdoc_body_wrapper")
        r3 == set_attribute(r2.el, "tabindex", "-1")
        r4 == set_tag_name(r3.el, "div")
    IN  IF ~r1.ok THEN r1
        ELSE IF ~r2.ok THEN r2
        ELSE IF ~r3.ok THEN r3
        ELSE IF ~r4.ok THEN r4
        ELSE Ok(after(before(before(prepend(r4.el, tera.body), "<body>"),
                             tera.rustdoc_header),
                      "</body>"))

\* (a variant of first_stylesheet_handler that inserts after the link)
first_stylesheet_handler_After(head) == Ok(after(head, tera.vendored_css))

first_stylesheet_handler(head) == Ok(before(head, tera.vendored_css))

head_selector(e) == e.local = "head"
body_selector(e) == e.local = "body"
\* (a variant of first_stylesheet_selector without the href test)
first_stylesheet_selector_AnyCss(e) ==
    /\ e.local = "link"
    /\ has_attribute(e, "type") /\ get_attribute(e, "type") = "text/css"

first_stylesheet_selector(e) ==
    /\ e.local = "link"
    /\ has_attribute(e, "type") /\ get_attribute(e, "type") = "text/css"
    /\ has_attribute(e, "href") /\ Contains(get_attribute(e, "href"), "rustdoc")

\* (a variant of element_content_handlers that skips elements inside an open one)
element_content_handlers_TopLevelOnly(e) ==
    IF stack # <<>> THEN Ok(e)
    ELSE IF head_selector(e) THEN head_handler(e)
    ELSE IF body_selector(e) THEN body_handler(e)
    ELSE IF first_stylesheet_selector(e) THEN first_stylesheet_handler(e)
    ELSE Ok(e)

\* element_content_handlers (l.80-93): each matching handler in turn; the
\* first error ends the pass.
element_content_handlers(e) ==
    LET h1 == IF head_selector(e) THEN head_handler(e) ELSE Ok(e)
        h2 == IF ~h1.ok THEN h1
              ELSE IF body_selector(e) THEN body_handler(h1.el) ELSE h1
        h3 == IF ~h2.ok THEN h2
              ELSE IF first_stylesheet_selector(e) THEN first_stylesheet_handler(h2.el)
              ELSE h2
    IN  h3

(***************************************************************************)
(* The rewriter: serialisation of a tag, the sink, the stack.              *)
(***************************************************************************)
\* (a variant of AttrBytes that writes every attribute anew)
AttrBytes_Requoted(a) == a.name \o "=\"" \o EscapeDoubleQuotes(a.value) \o "\""

\* An attribute the handlers did not touch is written as its raw bytes; one
\* they set is written name="value" with the double quotes of the value escaped.
AttrBytes(a) ==
    IF a.raw # "" THEN a.raw
    ELSE a.name \o "=\"" \o EscapeDoubleQuotes(a.value) \o "\""

\* A start tag the handlers did not change is written as its raw bytes; a
\* changed one is written from its parts.
StartTagBytes(e) ==
    IF ~e.modified THEN e.raw
    ELSE "<" \o e.name
         \o Concat([i \in 1..Len(e.attrs) |-> " " \o AttrBytes(e.attrs[i])])
         \o ">"

EndTagBytes(item, tok) ==
    IF item.end_name # "" THEN "</" \o item.end_name \o ">" ELSE tok.raw

\* One call of the sink (l.106-108): the bytes, with the lexeme they were
\* written for and the edit that produced them.
Chunk(bytes, src, role) == [bytes |-> bytes, src |-> src, role |-> role]

Chunks(contents, src, role) ==
    [i \in 1..Len(contents) |-> Chunk(contents[i], src, role)]

Bytes(buf) == Concat([i \in 1..Len(buf) |-> buf[i].bytes])

StackItem(e) == [local |-> e.local, src |-> e.src, end_name |-> e.end_name,
                 append |-> e.append, after |-> e.after]

NoItem == [local |-> "", src |-> 0, end_name |-> "", append |-> <<>>, after |-> <<>>]

OpenIdx(stk, n) == {i \in 1..Len(stk) : stk[i].local = n}

\* What the sink receives for a start tag the handlers left as e.
StartTagChunks(e) ==
    Chunks(e.before, e.src, "before")
    \o <<Chunk(StartTagBytes(e), e.src, IF e.modified THEN "tag" ELSE "raw")>>
    \o (IF e.can_have_content THEN Chunks(e.prepend, e.src, "prepend")
        ELSE Chunks(e.after, e.src, "after"))

\* What the sink receives for an end tag that closes item (NoItem: none open).
EndTagChunks(item, tok, i) ==
    Chunks(item.append, i, "append")
    \o <<Chunk(EndTagBytes(item, tok), i, IF item.end_name # "" THEN "tag" ELSE "raw")>>
    \o Chunks(item.after, i, "after")

NoResult == [tag |-> "None", bytes |-> "", error |-> ""]
OkResult(bytes) == [tag |-> "Ok", bytes |-> bytes, error |-> ""]
ErrResult(kind) == [tag |-> "Err", bytes |-> "", error |-> kind]

NoneFired == [head |-> 0, body |-> 0, first_stylesheet |-> 0]

Count(b) == IF b THEN 1 ELSE 0

(***************************************************************************)
(* Input documents.  The names still open after k lexemes; a document is   *)
(* an input when no head or body element is closed by the end tag of an    *)
(* element around it (it is closed by its own end tag or stays open).      *)
(***************************************************************************)
RECURSIVE OpenNames(_, _)
OpenNames(doc, k) ==
    IF k = 0 THEN <<>>
    ELSE LET s == OpenNames(doc, k - 1)
             t == doc[k]
             same == {i \in 1..Len(s) : s[i] = t.name}
         IN  IF t.kind = "start" /\ t.name \notin VoidElements THEN Append(s, t.name)
             ELSE IF t.kind = "end" /\ same # {} THEN SubSeq(s, 1, Max(same) - 1)
             ELSE s

ClosedByOwnEndTag(doc) ==
    \A k \in 1..Len(doc) :
        LET s == OpenNames(doc, k - 1)
            same == {i \in 1..Len(s) : s[i] = doc[k].name}
        IN  (doc[k].kind = "end" /\ same # {}) =>
                \A j \in (Max(same) + 1)..Len(s) : s[j] \notin {"head", "body"}

Docs ==
    {d \in UNION {[1..n -> Alphabet] : n \in 0..MaxDocLen} : ClosedByOwnEndTag(d)}
    \cup {ExampleDoc}

MemoryCeilings == {1, 2, Len(ExampleDoc) + MaxDocLen}

(***************************************************************************)
(* The call.                                                               *)
(***************************************************************************)
Init ==
    /\ html \in Docs
    /\ max_allowed_memory_usage \in MemoryCeilings
    /\ templates \in TemplateStores
    /\ ctx \in Contexts
    \* the call ends before the document is read when a render fails: such a
    \* context is tried on the short documents and the example
    /\ ctx # {} => (Len(html) <= 1 \/ html = ExampleDoc)
    /\ tera = NoFragments
    /\ pc = "render"
    /\ pos = 1
    /\ stack = <<>>
    /\ buffer = <<>>
    /\ result = NoResult
    /\ panicked = FALSE
    /\ elem = NoElement
    /\ fired = NoneFired

\* (a variant of RenderTemplates that goes on with an empty fragment)
RenderTemplates_Default ==
    /\ pc = "render"
    /\ tera' = [head |-> render(templates, TemplateNames[1], ctx).text,
                vendored_css |-> render(templates, TemplateNames[2], ctx).text,
                body |-> render(templates, TemplateNames[3], ctx).text,
                rustdoc_header |-> render(templates, TemplateNames[4], ctx).text]
    /\ pc' = "write"
    /\ UNCHANGED <<html, max_allowed_memory_usage, ctx, templates, pos, stack,
                   buffer, result, panicked, elem, fired>>

\* l.20-24: the four templates are rendered in turn and each result is
\* unwrapped; a failed render unwinds the call.
Rendered ==
    [i \in 1..Len(TemplateNames) |-> render(templates, TemplateNames[i], ctx)]

RenderTemplates ==
    /\ pc = "render"
    /\ IF \E i \in 1..Len(TemplateNames) : ~Rendered[i].ok
       THEN /\ panicked' = TRUE
            /\ pc' = "done"
            /\ tera' = tera
       ELSE /\ tera' = [head |-> Rendered[1].text, vendored_css |-> Rendered[2].text,
                        body |-> Rendered[3].text, rustdoc_header |-> Rendered[4].text]
            /\ pc' = "write"
            /\ panicked' = panicked
    /\ UNCHANGED <<html, max_allowed_memory_usage, ctx, templates, pos, stack,
                   buffer, result, elem, fired>>

\* (a variant of Fail that returns what the sink holds)
Fail_Truncated(kind) ==
    /\ result' = OkResult(Bytes(buffer))
    /\ pc' = "done"
    /\ UNCHANGED <<pos, stack, buffer, elem, fired>>

\* writer.write(html)? (l.111), one lexeme: a start tag.  The element is put
\* on the stack first (the memory ceiling is checked there), then the
\* handlers run, then the tag and the content around it reach the sink.
Fail(kind) ==
    /\ result' = ErrResult(kind)
    /\ pc' = "done"
    /\ UNCHANGED <<pos, stack, buffer, elem, fired>>

WriteStartTag ==
    /\ pc = "write" /\ pos <= Len(html) /\ html[pos].kind = "start"
    /\ LET e == Element(html[pos], pos)
           r == element_content_handlers(e)
       IN  IF e.can_have_content /\ Len(stack) + 1 > max_allowed_memory_usage
           THEN Fail("MemoryLimitExceeded")
           ELSE IF ~r.ok
           THEN Fail(r.err)
           ELSE /\ buffer' = buffer \o StartTagChunks(r.el)
                /\ stack' = IF e.can_have_content THEN Append(stack, StackItem(r.el))
                            ELSE stack
                /\ elem' = r.el
                /\ fired' = [head |-> fired.head + Count(head_selector(e)),
                             body |-> fired.body + Count(body_selector(e)),
                             first_stylesheet |->
                                 fired.first_stylesheet
                                 + Count(first_stylesheet_selector(e))]
                /\ pos' = pos + 1
                /\ UNCHANGED <<pc, result>>
    /\ UNCHANGED <<html, max_allowed_memory_usage, ctx, templates, tera, panicked>>

\* writer.write(html)?, one lexeme: an end tag.  It closes the innermost open
\* element of its name, and the elements opened inside that one with it; an
\* end tag that closes nothing is passed on.
WriteEndTag ==
    /\ pc = "write" /\ pos <= Len(html) /\ html[pos].kind = "end"
    /\ LET same == OpenIdx(stack, html[pos].name)
           item == IF same = {} THEN NoItem ELSE stack[Max(same)]
       IN  /\ buffer' = buffer \o EndTagChunks(item, html[pos], pos)
           /\ stack' = IF same = {} THEN stack ELSE SubSeq(stack, 1, Max(same) - 1)
    /\ pos' = pos + 1
    /\ UNCHANGED <<html, max_allowed_memory_usage, ctx, templates, tera, pc,
                   result, panicked, elem, fired>>

\* writer.write(html)?, one lexeme: text.
WriteText ==
    /\ pc = "write" /\ pos <= Len(html) /\ html[pos].kind = "text"
    /\ buffer' = buffer \o <<Chunk(html[pos].raw, pos, "raw")>>
    /\ pos' = pos + 1
    /\ UNCHANGED <<html, max_allowed_memory_usage, ctx, templates, tera, pc, stack,
                   result, panicked, elem, fired>>

\* writer.end()? and Ok(buffer) (l.112-114): the input is consumed; elements
\* still open are dropped with what was to be written at their end tags.
End ==
    /\ pc = "write" /\ pos > Len(html)
    /\ stack' = <<>>
    /\ result' = OkResult(Bytes(buffer))
    /\ pc' = "done"
    /\ UNCHANGED <<html, max_allowed_memory_usage, ctx, templates, tera, pos,
                   buffer, panicked, elem, fired>>

Next == RenderTemplates \/ WriteStartTag \/ WriteEndTag \/ WriteText \/ End

Spec == Init /\ [][Next]_vars

(***************************************************************************)
(* Vocabulary of the properties.                                           *)
(***************************************************************************)
Done == pc = "done"
Succeeded == Done /\ result.tag = "Ok"

Injected == {"before", "prepend", "append", "after"}

NoChunk == Chunk("", 0, "none")
At(i) == IF i \in 1..Len(buffer) THEN buffer[i] ELSE NoChunk
ChunksOf(k) == {i \in 1..Len(buffer) : buffer[i].src = k}
MainPos(k) ==
    LET ps == {i \in ChunksOf(k) : buffer[i].role \in {"raw", "tag"}}
    IN  IF ps = {} THEN 0 ELSE Min(ps)

\* The lexemes still open after k lexemes, and the end tag that closes the
\* element opened at lexeme i (0: none).
RECURSIVE OpenAt(_, _)
OpenAt(doc, k) ==
    IF k = 0 THEN <<>>
    ELSE LET s == OpenAt(doc, k - 1)
             t == doc[k]
             same == {j \in 1..Len(s) : doc[s[j]].name = t.name}
         IN  IF t.kind = "start" /\ t.name \notin VoidElements THEN Append(s, k)
             ELSE IF t.kind = "end" /\ same # {} THEN SubSeq(s, 1, Max(same) - 1)
             ELSE s

Closers(doc, i) ==
    {k \in (i + 1)..Len(doc) :
        /\ doc[k].kind = "end" /\ doc[k].name = doc[i].name
        /\ LET s == OpenAt(doc, k - 1)
               same == {j \in 1..Len(s) : doc[s[j]].name = doc[k].name}
           IN  same # {} /\ s[Max(same)] = i}
Closer(doc, i) == IF Closers(doc, i) = {} THEN 0 ELSE Min(Closers(doc, i))

MaxDepth(doc) == Max({Len(OpenAt(doc, k)) : k \in 0..Len(doc)})

StartsNamed(doc, n) == {i \in 1..Len(doc) : doc[i].kind = "start" /\ doc[i].name = n}
BodyStarts(doc) == StartsNamed(doc, "body")
HeadStarts(doc) == StartsNamed(doc, "head")
BodyClosers(doc) == {Closer(doc, b) : b \in BodyStarts(doc)} \ {0}
TokHasAttr(t, n) == \E j \in 1..Len(t.attrs) : t.attrs[j].name = n
TokAttr(t, n) == t.attrs[Min({j \in 1..Len(t.attrs) : t.attrs[j].name = n})]
MatchingLinks(doc) ==
    {i \in StartsNamed(doc, "link") :
        /\ TokHasAttr(doc[i], "type") /\ TokAttr(doc[i], "type").value = "text/css"
        /\ TokHasAttr(doc[i], "href")
        /\ Contains(TokAttr(doc[i], "href").value, "rustdoc")}

\* The lexemes between i and j reach the sink between the chunks at p and q,
\* in their order.
ChildrenBetween(i, j, p, q) ==
    /\ \A c \in (i + 1)..(j - 1) : MainPos(c) > p /\ MainPos(c) < q
    /\ \A c, d \in (i + 1)..(j - 1) : c < d => MainPos(c) < MainPos(d)
    /\ \A c \in (i + 1)..(j - 1) :
          (c \notin BodyStarts(html) \cup BodyClosers(html))
              => buffer[MainPos(c)].bytes = html[c].raw
    /\ \A x \in (p + 1)..(q - 1) : buffer[x].src \in (i + 1)..(j - 1)

(***************************************************************************)
(* C1.  The body opened at lexeme b and closed by end tag e is written as  *)
(* <body>, the header fragment, the div's start tag, the body-prefix       *)
(* fragment, the children in their order, </div>, </body>, at the place    *)
(* of the original body.                                                   *)
(***************************************************************************)
BodyWrapped(b, e) ==
    LET p == MainPos(b)
        q == MainPos(e)
    IN  /\ p >= 3 /\ q > p + 1
        /\ At(p - 2) = Chunk("<body>", b, "before")
        /\ At(p - 1) = Chunk(tera.rustdoc_header, b, "before")
        /\ At(p).role = "tag" /\ SubSeq(At(p).bytes, 1, 4) = "<div"
        /\ At(p + 1) = Chunk(tera.body, b, "prepend")
        /\ ChunksOf(b) = (p - 2)..(p + 1)
        /\ At(q) = Chunk("</div>", e, "tag")
        /\ At(q + 1) = Chunk("</body>", e, "after")
        /\ ChunksOf(e) = {q, q + 1}
        /\ ChildrenBetween(b, e, p + 1, q)
        /\ \A x \in 1..(p - 3) : buffer[x].src < b
        /\ \A x \in (q + 2)..Len(buffer) : buffer[x].src > e

C2_ClassMerged ==
    (elem.src # 0 /\ html[elem.src].name = "body") =>
        LET t == html[elem.src]
        IN  /\ has_attribute(elem, "class")
            /\ get_attribute(elem, "class") =
                  (IF TokHasAttr(t, "class")
                   THEN TokAttr(t, "class").value \o " container-rustdoc"
                   ELSE "container-rustdoc")
            /\ has_attribute(elem, "id")
            /\ get_attribute(elem, "id") = "rustdoc_body_wrapper"
            /\ has_attribute(elem, "tabindex")
            /\ get_attribute(elem, "tabindex") = "-1"
            /\ \A n \in {"class", "id", "tabindex"} :
                  Cardinality(AttrIdx(elem, n))
                      = (IF TokHasAttr(t, n)
                         THEN Cardinality({j \in 1..Len(t.attrs) : t.attrs[j].name = n})
                         ELSE 1)
            /\ elem.name = "div"

C2_Witness ==
    /\ elem.src # 0 /\ html[elem.src] = BodyEmptyClass
    /\ get_attribute(elem, "class") = " container-rustdoc"

(***************************************************************************)
(* C3.  The head fragment as the last content of a head.                   *)
(***************************************************************************)
HeadAppended(h, e) ==
    LET p == MainPos(h)
        q == MainPos(e)
    IN  /\ p >= 1 /\ q > p + 1
        /\ At(p) = Chunk(html[h].raw, h, "raw")
        /\ ChunksOf(h) = {p}
        /\ At(q - 1) = Chunk(tera.head, e, "append")
        /\ At(q) = Chunk(html[e].raw, e, "raw")
        /\ ChunksOf(e) = {q - 1, q}
        /\ ChildrenBetween(h, e, p, q - 1)

AppendChunks == {i \in 1..Len(buffer) : buffer[i].role = "append"}

C4_VendoredBeforeEachLink ==
    Succeeded =>
        /\ \A i \in MatchingLinks(html) :
              LET p == MainPos(i)
              IN  /\ p >= 2
                  /\ At(p - 1) = Chunk(tera.vendored_css, i, "before")
                  /\ At(p) = Chunk(html[i].raw, i, "raw")
                  /\ ChunksOf(i) = {p - 1, p}
        /\ \A i \in StartsNamed(html, "link") \ MatchingLinks(html) :
              /\ Cardinality(ChunksOf(i)) = 1
              /\ At(MainPos(i)) = Chunk(html[i].raw, i, "raw")
        /\ Cardinality({x \in 1..Len(buffer) :
                           /\ buffer[x].role = "before"
                           /\ html[buffer[x].src].name = "link"})
              = Cardinality(MatchingLinks(html))

C4_Witness ==
    /\ Succeeded
    /\ Cardinality(MatchingLinks(html)) >= 2
    /\ StartsNamed(html, "link") \ MatchingLinks(html) # {}

(***************************************************************************)
(* C5.  A template that fails to render.                                   *)
(***************************************************************************)
\* C5 as stated: a failed render comes back to the caller as a failure result.
C5_AsStated ==
    (Done /\ ctx # {}) => (result.tag = "Err" /\ ~panicked)

\* C5, amended: when one of the four templates fails to render, rewrite_lol
\* panics at the unwrap of that render, before any rewriting starts: no
\* handler has run, the sink has received nothing and no value, neither
\* output nor a failure result, is returned.
C5_RenderFailurePanics ==
    ctx # {} =>
        /\ Done => panicked
        /\ pc \in {"render", "done"}
        /\ result = NoResult /\ buffer = <<>> /\ pos = 1
        /\ fired = NoneFired /\ elem = NoElement

C5_Witness ==
    Done /\ panicked /\ ctx = {"rustdoc/body.html"} /\ Len(html) > 0

(***************************************************************************)
(* C6.  A failed pass returns no bytes.                                    *)
(***************************************************************************)
\* C6: a pass that was started ends either with Ok and the whole transformed
\* document (every lexeme consumed, the bytes the sink accumulated) or with
\* an error and no bytes, whatever the sink accumulated before the failure;
\* nothing is returned before the pass ends.
C6_AllOrNothing ==
    /\ (Done /\ ~panicked) =>
          \/ /\ result.tag = "Ok"
             /\ pos = Len(html) + 1
             /\ result.bytes = Bytes(buffer)
          \/ /\ result.tag = "Err"
             /\ result.bytes = ""
             /\ result.error \in {"MemoryLimitExceeded", "AttributeNameError",
                                  "TagNameError"}
    /\ ~Done => result = NoResult

C6_Witness ==
    Done /\ result.tag = "Err" /\ Len(buffer) >= 2 /\ result.bytes = ""

(***************************************************************************)
(* C7.  Byte preservation.  Reverting the output: the injected chunks are  *)
(* removed; in a rewritten tag the name is put back and the class, id and  *)
(* tabindex the handler wrote are replaced by the original attribute or,   *)
(* when there was none, removed with the space before them.                *)
(***************************************************************************)
IndexOf(s, sub) ==
    LET is == {i \in 1..(Len(s) - Len(sub) + 1) : SubSeq(s, i, i + Len(sub) - 1) = sub}
    IN  IF is = {} THEN 0 ELSE Min(is)

ReplaceFirst(s, old, new) ==
    LET i == IndexOf(s, old)
    IN  IF i = 0 THEN s
        ELSE SubSeq(s, 1, i - 1) \o new \o SubSeq(s, i + Len(old), Len(s))

Written(n, v) == n \o "=\"" \o EscapeDoubleQuotes(v) \o "\""

RevertAttr(out, t, n, v) ==
    IF TokHasAttr(t, n) THEN ReplaceFirst(out, Written(n, v), TokAttr(t, n).raw)
    ELSE ReplaceFirst(out, " " \o Written(n, v), "")

RawStartName(t) == SubSeq(t.raw, 2, 1 + Len(t.name))
RawEndName(t) == SubSeq(t.raw, 3, 2 + Len(t.name))

RevertStartTag(out, t) ==
    LET s1 == ReplaceFirst(out, "<div", "<" \o RawStartName(t))
        s2 == RevertAttr(s1, t, "class",
                         IF TokHasAttr(t, "class")
                         THEN TokAttr(t, "class").value \o " container-rustdoc"
                         ELSE "container-rustdoc")
        s3 == RevertAttr(s2, t, "id", "rustdoc_body_wrapper")
    IN  RevertAttr(s3, t, "tabindex", "-1")

RevertEndTag(out, t) == ReplaceFirst(out, "</div", "</" \o RawEndName(t))

Reverted(buf) ==
    Concat([i \in 1..Len(buf) |->
        IF buf[i].role \in Injected THEN ""
        ELSE IF buf[i].role = "raw" THEN buf[i].bytes
        ELSE IF html[buf[i].src].kind = "start"
             THEN RevertStartTag(buf[i].bytes, html[buf[i].src])
             ELSE RevertEndTag(buf[i].bytes, html[buf[i].src])])

\* The lexeme with single spaces between its attributes and none before ">".
SingleSpaced(t) ==
    IF t.kind = "start"
    THEN [t EXCEPT !.raw = "<" \o RawStartName(t)
                           \o Concat([j \in 1..Len(t.attrs) |-> " " \o t.attrs[j].raw])
                           \o ">"]
    ELSE IF t.kind = "end" THEN [t EXCEPT !.raw = "</" \o RawEndName(t) \o ">"]
    ELSE t

\* The document with the start tags of its body elements, and the end tags
\* closing them, single-spaced.
BodyTagsSingleSpaced(doc) ==
    [i \in 1..Len(doc) |->
        IF i \in BodyStarts(doc) \cup BodyClosers(doc) THEN SingleSpaced(doc[i])
        ELSE doc[i]]

ExampleOutputAsStated ==
    "<html><head><style>h</style></head><body><header>hdr</header>"
    \o "<div id=\"rustdoc_body_wrapper\" class=\"foo container-rustdoc\" tabindex=\"-1\">"
    \o "<nav>top</nav>X</div></body></html>"

ExampleOutput ==
    "<html><head><style>h</style></head><body><header>hdr</header>"
    \o "<div class=\"foo container-rustdoc\" id=\"rustdoc_body_wrapper\" tabindex=\"-1\">"
    \o "<nav>top</nav>X</div></body></html>"

ExampleRun == Succeeded /\ html = ExampleDoc /\ templates = ExampleTemplates

\* C8: for the example input and fragments the output is
\* <html><head><style>h</style></head><body><header>hdr</header><div
\* id="rustdoc_body_wrapper" class="foo container-rustdoc" tabindex="-1"><nav>top</nav>
\* X</div></body></html>, the div carrying id, class, tabindex in that order.
C8_AsStated == ExampleRun => result.bytes = ExampleOutputAsStated

\* What the code writes for the example: the class attribute keeps the place
\* it had on the body, and id and tabindex, which the body did not have,
\* follow it.
C8_ExampleOutput == ExampleRun => result.bytes = ExampleOutput

C8_Witness == ExampleRun /\ Len(result.bytes) > Len(InputBytes(html))

(***************************************************************************)
(* C9.  A selector that matches nothing.                                   *)
(***************************************************************************)
NoMatch(doc) == HeadStarts(doc) = {} /\ BodyStarts(doc) = {} /\ MatchingLinks(doc) = {}

FiredAsInput ==
    /\ fired.head = Cardinality(HeadStarts(html))
    /\ fired.body = Cardinality(BodyStarts(html))
    /\ fired.first_stylesheet = Cardinality(MatchingLinks(html))

HeadClosers(doc) == {Closer(doc, h) : h \in HeadStarts(doc)} \ {0}

InjectedChunks == {x \in 1..Len(buffer) : buffer[x].role \in Injected}

Verbatim(c) ==
    LET i == c.src
    IN  \/ c.role = "before" /\ i \in BodyStarts(html)
           /\ c.bytes \in {"<body>", tera.rustdoc_header}
        \/ c.role = "prepend" /\ i \in BodyStarts(html) /\ c.bytes = tera.body
        \/ c.role = "after" /\ i \in BodyClosers(html) /\ c.bytes = "</body>"
        \/ c.role = "append" /\ i \in HeadClosers(html) /\ c.bytes = tera.head
        \/ c.role = "before" /\ i \in MatchingLinks(html)
           /\ c.bytes = tera.vendored_css

====
